---- MODULE Spec2Model ----
(***************************************************************************)
(* Limit-order-book reconstruction of alpha-lab-core.                      *)
(*                                                                         *)
(* Three copies of the reconstructor are modelled:                         *)
(*   "reconstruct_book"  validation/inspection/reconstruct_lob.py          *)
(*   "mass_production"   11_mass_production.py   reconstruct_lob           *)
(*   "regime_factory"    13_regime_factory.py    reconstruct_lob           *)
(*                                                                         *)
(* Prices are whole ticks.  mid_price is held in half ticks, so that the   *)
(* division by two of (bid_px_1 + ask_px_1) stays exact.                   *)
(*                                                                         *)
(* Spec      feeds the loop one filtered, time-ordered row at a time.      *)
(* SpecSort  starts from a whole unsorted frame, filters and sorts it.      *)
(* SpecTwice runs the reconstruction twice on the same unsorted frame.     *)
(***************************************************************************)
EXTENDS Integers, Sequences, FiniteSets, TLC

VARIABLES
    copy,           \* which copy of the reconstructor runs
    has_order_id,   \* "order_id" in events.columns
    pc,             \* "load", "loop", "done", "exit", "raised"
    error,          \* name of the exception that ended the run, "" if none
    active_orders,  \* order_id -> [p, q, s]
    bid_levels,     \* price -> total volume
    ask_levels,     \* price -> total volume
    snapshots,      \* list of snapshot dicts appended so far
    n_rows,         \* number of rows the loop has iterated over so far
    last,           \* the row of the latest iteration
    wellformed,     \* no booked ORDER_SUBMITTED row so far reused the order_id of a
                    \* live order or carried a quantity <= 0 (the input data model)
    output,         \* what the run wrote (reconstruct_book) or returned (reconstruct_lob)
    df,             \* the raw input frame (SpecSort)
    events_pd,      \* the filtered, sorted frame the loop iterates over (SpecSort)
    run,            \* 1 or 2: which run over df this is (SpecTwice)
    first,          \* snapshots and output of run 1 (SpecTwice)
    batch,          \* the __main__ loop over simulated days (SpecBatch)
    launcher,       \* 14_launch_parallel.py: launch_workers' arguments and locals (SpecLaunch)
    factory,        \* 13_regime_factory.py: DATA_DIR and the --regime argument (SpecFactory)
    harvester,      \* smart_harvester.py: the clock, main's position and the saved rows (SpecHarvest)
    splitter        \* split_and_merge.py: split_and_merge's locals (SpecSplit)

book == <<active_orders, bid_levels, ask_levels>>
tools == <<launcher, factory, harvester, splitter>>
vars_core == <<copy, has_order_id, pc, error, active_orders, bid_levels, ask_levels,
               snapshots, n_rows, last, wellformed, output, df, events_pd, run, first, batch>>
vars == <<copy, has_order_id, pc, error, active_orders, bid_levels, ask_levels,
          snapshots, n_rows, last, wellformed, output, df, events_pd, run, first, batch, tools>>

----
(* Bounds *)

MaxEvents == 3      \* rows fed to the loop in Spec
MaxRows == 3        \* rows of the raw frame in SpecSort
MaxRowsTwice == 2   \* rows of the raw frame in SpecTwice
MaxDeepEvents == 7  \* rows fed to the loop in SpecDeep
NumDays == 2        \* days of a batch in SpecBatch (NUM_DAYS, --days)
MaxRowsDay == 2     \* rows of the log of one simulated day in SpecBatch
MinDayHeight == 0   \* day_df.height > 100, scaled to the short days of SpecBatch
MaxRoundRows == 3   \* rows of the frame in SpecRound

OrderIds == {1, 2}
Prices == {1, 2}        \* valid limit prices, in ticks
Quantities == {1, 2}    \* positive integer quantities
Times == {1, 2}         \* EventTime of a raw row (SpecSort)

(* Program constants *)

DEPTH == 5
SYMBOL_RB == "NIFTY_SIM"
TICKER == "ABM"

Copies == {"reconstruct_book", "mass_production", "regime_factory"}

----
(* Cell values of a row.  A cell is a number, a float NaN, a Python None,  *)
(* or a string that is not a number.                                       *)

Num(n) == [k |-> "num", v |-> n]
NaN == [k |-> "nan", v |-> 0]
None == [k |-> "none", v |-> 0]
Str == [k |-> "str", v |-> 0]

(* float(x): a number converts, NaN stays NaN, None raises TypeError, a   *)
(* non-numeric string raises ValueError.                                   *)
PyFloat(c) ==
    CASE c.k = "num" -> [exc |-> "", nan |-> FALSE, v |-> c.v]
      [] c.k = "nan" -> [exc |-> "", nan |-> TRUE, v |-> 0]
      [] c.k = "none" -> [exc |-> "TypeError", nan |-> FALSE, v |-> 0]
      [] OTHER -> [exc |-> "ValueError", nan |-> FALSE, v |-> 0]

(* int(x): NaN raises ValueError (cannot convert float NaN to integer).    *)
PyInt(c) ==
    CASE c.k = "num" -> [exc |-> "", v |-> c.v]
      [] c.k = "nan" -> [exc |-> "ValueError", v |-> 0]
      [] c.k = "none" -> [exc |-> "TypeError", v |-> 0]
      [] OTHER -> [exc |-> "ValueError", v |-> 0]

(* Variant that compares the whole tag: side == "BID" *)
HasBID_Exact(side) == side = "BID"

(* "BID" in side *)
HasBID(side) == side \in {"Side.BID", "BID"}

IsSubmitted(e) == e.EventType = "ORDER_SUBMITTED"
IsRemoval(e) == e.EventType \in {"ORDER_CANCELLED", "ORDER_EXECUTED"}
PassesFilter(e) == e.EventType \in {"ORDER_SUBMITTED", "ORDER_CANCELLED", "ORDER_EXECUTED"}

----
(* The body of the SUBMITTED try block, up to the validity test.           *)
(* "ok": the order is booked; "skip": pd.isna(price) or price <= 0;        *)
(* otherwise the name of the exception raised inside the try.             *)
SubmitOutcome(e) ==
    LET price == PyFloat(e.limit_price)
        qty == PyInt(e.quantity)
    IN  IF price.exc # "" THEN price.exc
        ELSE IF qty.exc # "" THEN qty.exc
        ELSE IF price.nan \/ price.v <= 0 THEN "skip"
        ELSE "ok"

(* except clauses of the three copies *)
Caught(c, exc) ==
    IF c = "regime_factory" THEN exc \in {"ValueError", "AttributeError", "KeyError"}
    ELSE TRUE

EmptyMap == [p \in {} |-> 0]

Get(levels, price) == IF price \in DOMAIN levels THEN levels[price] ELSE 0

Max(a, b) == IF a >= b THEN a ELSE b

(* Variant that stores qty instead of adding it: levels[price] = qty *)
AddLevel_Store(levels, price, qty) ==
    [p \in DOMAIN levels \cup {price} |-> IF p = price THEN qty ELSE levels[p]]

(* levels[price] = levels.get(price, 0) + qty *)
AddLevel(levels, price, qty) ==
    [p \in DOMAIN levels \cup {price} |-> IF p = price THEN Get(levels, price) + qty ELSE levels[p]]

(* Variant without the floor: levels[price] = levels[price] - remove *)
RemoveLevel_NoFloor(levels, price, remove) ==
    IF price \in DOMAIN levels
    THEN LET left == levels[price] - remove
         IN  IF left = 0
             THEN [p \in DOMAIN levels \ {price} |-> levels[p]]
             ELSE [levels EXCEPT ![price] = left]
    ELSE levels

(* if price in levels: levels[price] = max(0, levels[price] - remove);     *)
(*                     if levels[price] == 0: del levels[price]            *)
RemoveLevel(levels, price, remove) ==
    IF price \in DOMAIN levels
    THEN LET left == Max(0, levels[price] - remove)
         IN  IF left = 0
             THEN [p \in DOMAIN levels \ {price} |-> levels[p]]
             ELSE [levels EXCEPT ![price] = left]
    ELSE levels

(* The book after an accepted ORDER_SUBMITTED row. b = [ao, bid, ask].     *)
SubmitBook(b, e) ==
    LET price == PyFloat(e.limit_price).v
        qty == PyInt(e.quantity).v
        side == e.side
    IN  [ao |-> [o \in DOMAIN b.ao \cup {e.order_id} |->
                    IF o = e.order_id THEN [p |-> price, q |-> qty, s |-> side] ELSE b.ao[o]],
         bid |-> IF HasBID(side) THEN AddLevel(b.bid, price, qty) ELSE b.bid,
         ask |-> IF HasBID(side) THEN b.ask ELSE AddLevel(b.ask, price, qty)]

(* pd.notna(log_qty) and log_qty > 0 raises TypeError on a string cell.    *)
RemovalRaises(e) == e.quantity.k = "str"

(* Variant that ignores the logged quantity: always order_info["q"] *)
QtyToRemove_AlwaysFull(e, info) == info.q

(* int(log_qty) if (pd.notna(log_qty) and log_qty > 0) else order_info["q"] *)
QtyToRemove(e, info) ==
    IF e.quantity.k = "num" /\ e.quantity.v > 0 THEN PyInt(e.quantity).v ELSE info.q

(* Variant that deletes the order only when remove == order_info["q"]. *)
RemoveBook_DeleteOnEqual(b, e) ==
    LET info == b.ao[e.order_id]
        remove == QtyToRemove(e, info)
    IN  [ao |-> IF remove = info.q
                THEN [o \in DOMAIN b.ao \ {e.order_id} |-> b.ao[o]]
                ELSE [b.ao EXCEPT ![e.order_id].q = info.q - remove],
         bid |-> IF HasBID(info.s) THEN RemoveLevel(b.bid, info.p, remove) ELSE b.bid,
         ask |-> IF HasBID(info.s) THEN b.ask ELSE RemoveLevel(b.ask, info.p, remove)]

(* The book after a removal row on a tracked order.                        *)
RemoveBook(b, e) ==
    LET info == b.ao[e.order_id]
        remove == QtyToRemove(e, info)
    IN  [ao |-> IF remove >= info.q
                THEN [o \in DOMAIN b.ao \ {e.order_id} |-> b.ao[o]]
                ELSE [b.ao EXCEPT ![e.order_id].q = info.q - remove],
         bid |-> IF HasBID(info.s) THEN RemoveLevel(b.bid, info.p, remove) ELSE b.bid,
         ask |-> IF HasBID(info.s) THEN b.ask ELSE RemoveLevel(b.ask, info.p, remove)]

----
(* Snapshot generation *)

SetMax(S) == CHOOSE x \in S : \A y \in S : y <= x
SetMin(S) == CHOOSE x \in S : \A y \in S : x <= y

(* sorted(levels.items(), key=price, reverse=True) *)
RECURSIVE SortedDesc(_)
SortedDesc(levels) ==
    IF DOMAIN levels = {} THEN <<>>
    ELSE LET m == SetMax(DOMAIN levels)
         IN  <<[px |-> m, qty |-> levels[m]]>>
                 \o SortedDesc([p \in DOMAIN levels \ {m} |-> levels[p]])

(* sorted(levels.items(), key=price) *)
RECURSIVE SortedAsc(_)
SortedAsc(levels) ==
    IF DOMAIN levels = {} THEN <<>>
    ELSE LET m == SetMin(DOMAIN levels)
         IN  <<[px |-> m, qty |-> levels[m]]>>
                 \o SortedAsc([p \in DOMAIN levels \ {m} |-> levels[p]])

(* Variant whose fill loop repeats the last level in the absent slots. *)
TopLevels_RepeatLast(sorted) ==
    [i \in 1..DEPTH |->
        IF i <= Len(sorted) THEN sorted[i]
        ELSE IF Len(sorted) > 0 THEN sorted[Len(sorted)]
        ELSE [px |-> 0, qty |-> 0]]

(* Variant that slices the last DEPTH entries, [-DEPTH:]. *)
TopLevels_Tail(sorted) ==
    [i \in 1..DEPTH |->
        IF i <= Len(sorted)
        THEN sorted[IF Len(sorted) > DEPTH THEN Len(sorted) - DEPTH + i ELSE i]
        ELSE [px |-> 0, qty |-> 0]]

(* [:DEPTH] then the fill loop over range(DEPTH): absent slots are (0.0, 0) *)
TopLevels(sorted) ==
    [i \in 1..DEPTH |-> IF i <= Len(sorted) THEN sorted[i] ELSE [px |-> 0, qty |-> 0]]

(* Variant that tests b1 > 0 or a1 > 0. *)
MidPrice_Either(b1, a1) == IF b1 > 0 \/ a1 > 0 THEN b1 + a1 ELSE 0

(* (b1 + a1) / 2 if b1 > 0 and a1 > 0 else 0.0, in half ticks *)
MidPrice(b1, a1) == IF b1 > 0 /\ a1 > 0 THEN b1 + a1 ELSE 0

Snapshot(b, ts, symbol) ==
    LET bids == TopLevels(SortedDesc(b.bid))
        asks == TopLevels(SortedAsc(b.ask))
    IN  [timestamp |-> ts, symbol |-> symbol, bid |-> bids, ask |-> asks,
         mid_price |-> MidPrice(bids[1].px, asks[1].px)]

(* final_df.filter(pl.col("mid_price") > 0) *)
FilterValid(rows) == SelectSeq(rows, LAMBDA s : s.mid_price > 0)

----
(* State helpers *)

Cur == [ao |-> active_orders, bid |-> bid_levels, ask |-> ask_levels]

SetBook(b) ==
    /\ active_orders' = b.ao
    /\ bid_levels' = b.bid
    /\ ask_levels' = b.ask

(* Event data model: order_id is unique per live order, and the quantity   *)
(* of a submission is a positive integer.                                  *)
RespectsDataModel(e) ==
    SubmitOutcome(e) = "ok" =>
        /\ e.order_id \notin DOMAIN active_orders
        /\ PyInt(e.quantity).v > 0

(* active_orders = {}; bid_levels = {}; ask_levels = {} *)
EmptyBook == [ao |-> EmptyMap, bid |-> EmptyMap, ask |-> EmptyMap]

NoOutput == [kind |-> "none", rows |-> <<>>]

(* The day loop of __main__ before its first iteration. *)
(* day: iterations begun; attempted: days for which run_day was called;    *)
(* failed: days that ended in the except clause or in day_df None;         *)
(* written: days whose file this batch wrote; existed: days whose file was *)
(* there before the batch.                                                 *)
NoBatch == [day |-> 0, attempted |-> {}, failed |-> {}, written |-> {}, existed |-> {}]

(* launch_workers before it is called. procs holds one record per launched  *)
(* worker process: its --start-seed and --days arguments and the position   *)
(* of its own day loop.                                                     *)
NoLaunch == [total_days |-> 0, start_seed |-> 0, cores |-> 0, chunk_size |-> 0,
             i |-> 0, procs |-> <<>>, pc |-> "idle"]

(* DATA_DIR as a set of file names [seed, regime], the --regime argument    *)
(* ("" when it is not given) and the first draw of default_rng(seed).       *)
NoFactory == [disk |-> {}, regime |-> "", dice |-> <<>>]

(* The harvester before main: the IST clock in seconds of the day, the now  *)
(* of the current loop iteration and the timestamps of the saved rows.      *)
NoHarvest == [clock |-> 0, now |-> 0, pc |-> "idle", saved |-> {}]

(* split_and_merge before its call. *)
(* regime_train keeps, per regime already split, the train part of its group. *)
NoSplit == [files |-> <<>>, regime_files |-> EmptyMap, total_files |-> 0,
            train_files |-> <<>>, val_files |-> <<>>, test_files |-> <<>>,
            regime_train |-> EmptyMap, pc |-> "idle"]

ToolsIdle ==
    /\ launcher = NoLaunch
    /\ factory = NoFactory
    /\ harvester = NoHarvest
    /\ splitter = NoSplit

(* Variant that appends row_dict outside the validity test. *)
AppendIfValid_Always(snaps, s) == Append(snaps, s)

(* row_dict is appended only when bid_px_1 > 0 and ask_px_1 > 0 *)
AppendIfValid(snaps, s) == IF s.mid_price > 0 THEN Append(snaps, s) ELSE snaps

----
(* validation/inspection/reconstruct_lob.py: reconstruct_book              *)

(* Variant without the order_id check. *)
Prepare_RB_NoCheck(sorted) ==
    /\ pc = "load"
    /\ copy = "reconstruct_book"
    /\ pc' = "loop"
    /\ events_pd' = sorted
    /\ SetBook(EmptyBook)
    /\ snapshots' = <<>>
    /\ UNCHANGED <<copy, has_order_id, error, n_rows, last, wellformed, output, df, run, first, batch, tools>>

(* filter, order_id check (sys.exit(1)), select + sort, empty state *)
Prepare_RB(sorted) ==
    /\ pc = "load"
    /\ copy = "reconstruct_book"
    /\ IF has_order_id
       THEN /\ pc' = "loop"
            /\ events_pd' = sorted
            /\ SetBook(EmptyBook)
            /\ snapshots' = <<>>
            /\ UNCHANGED error
       ELSE /\ pc' = "exit"
            /\ error' = "SystemExit"
            /\ UNCHANGED <<events_pd, book, snapshots>>
    /\ UNCHANGED <<copy, has_order_id, n_rows, last, wellformed, output, df, run, first, batch, tools>>

(* Variant whose snapshot is taken from the book before the row is applied. *)
Submitted_RB_StaleSnapshot(e) ==
    /\ IsSubmitted(e)
    /\ wellformed' = (wellformed /\ RespectsDataModel(e))
    /\ n_rows' = n_rows + 1
    /\ last' = e
    /\ IF SubmitOutcome(e) = "ok"
       THEN /\ SetBook(SubmitBook(Cur, e))
            /\ snapshots' = Append(snapshots, Snapshot(Cur, e.EventTime, SYMBOL_RB))
       ELSE UNCHANGED <<book, snapshots>>
    /\ UNCHANGED <<pc, error>>

(* Variant without the test pd.isna(price) or price <= 0. *)
Submitted_RB_NoPriceCheck(e) ==
    /\ IsSubmitted(e)
    /\ wellformed' = (wellformed /\ RespectsDataModel(e))
    /\ n_rows' = n_rows + 1
    /\ last' = e
    /\ IF SubmitOutcome(e) \in {"ok", "skip"}
       THEN /\ SetBook(SubmitBook(Cur, e))
            /\ snapshots' = Append(snapshots, Snapshot(SubmitBook(Cur, e), e.EventTime, SYMBOL_RB))
       ELSE UNCHANGED <<book, snapshots>>
    /\ UNCHANGED <<pc, error>>

(* One iteration on an ORDER_SUBMITTED row: both continue statements skip  *)
(* the snapshot generation below the handlers.                             *)
Submitted_RB(e) ==
    /\ IsSubmitted(e)
    /\ wellformed' = (wellformed /\ RespectsDataModel(e))
    /\ n_rows' = n_rows + 1
    /\ last' = e
    /\ IF SubmitOutcome(e) = "ok"
       THEN /\ SetBook(SubmitBook(Cur, e))
            /\ snapshots' = Append(snapshots, Snapshot(SubmitBook(Cur, e), e.EventTime, SYMBOL_RB))
       ELSE UNCHANGED <<book, snapshots>>
    /\ UNCHANGED <<pc, error>>

(* Variant that looks the order up without the test oid in active_orders. *)
Removal_RB_RaiseUntracked(e) ==
    /\ IsRemoval(e)
    /\ UNCHANGED wellformed
    /\ n_rows' = n_rows + 1
    /\ last' = e
    /\ IF e.order_id \in DOMAIN active_orders
       THEN IF RemovalRaises(e)
            THEN /\ pc' = "raised"
                 /\ error' = "TypeError"
                 /\ UNCHANGED <<book, snapshots>>
            ELSE /\ SetBook(RemoveBook(Cur, e))
                 /\ snapshots' = Append(snapshots, Snapshot(RemoveBook(Cur, e), e.EventTime, SYMBOL_RB))
                 /\ UNCHANGED <<pc, error>>
       ELSE /\ pc' = "raised"
            /\ error' = "KeyError"
            /\ UNCHANGED <<book, snapshots>>

(* Variant that skips the snapshot of a removal of an untracked order. *)
Removal_RB_SkipUntracked(e) ==
    /\ IsRemoval(e)
    /\ UNCHANGED wellformed
    /\ n_rows' = n_rows + 1
    /\ last' = e
    /\ IF e.order_id \in DOMAIN active_orders
       THEN IF RemovalRaises(e)
            THEN /\ pc' = "raised"
                 /\ error' = "TypeError"
                 /\ UNCHANGED <<book, snapshots>>
            ELSE /\ SetBook(RemoveBook(Cur, e))
                 /\ snapshots' = Append(snapshots, Snapshot(RemoveBook(Cur, e), e.EventTime, SYMBOL_RB))
                 /\ UNCHANGED <<pc, error>>
       ELSE UNCHANGED <<book, snapshots, pc, error>>

(* One iteration on an ORDER_CANCELLED / ORDER_EXECUTED row. *)
Removal_RB(e) ==
    /\ IsRemoval(e)
    /\ UNCHANGED wellformed
    /\ n_rows' = n_rows + 1
    /\ last' = e
    /\ IF e.order_id \in DOMAIN active_orders
       THEN IF RemovalRaises(e)
            THEN /\ pc' = "raised"
                 /\ error' = "TypeError"
                 /\ UNCHANGED <<book, snapshots>>
            ELSE /\ SetBook(RemoveBook(Cur, e))
                 /\ snapshots' = Append(snapshots, Snapshot(RemoveBook(Cur, e), e.EventTime, SYMBOL_RB))
                 /\ UNCHANGED <<pc, error>>
       ELSE /\ snapshots' = Append(snapshots, Snapshot(Cur, e.EventTime, SYMBOL_RB))
            /\ UNCHANGED <<book, pc, error>>

Step_RB(e) ==
    /\ pc = "loop"
    /\ copy = "reconstruct_book"
    /\ \/ Submitted_RB(e)
       \/ Removal_RB(e)
    /\ UNCHANGED <<copy, has_order_id, output, df, events_pd, run, first, batch, tools>>

(* pl.DataFrame(snapshots) has no columns when snapshots is empty, and the *)
(* filter on mid_price then raises ColumnNotFoundError before the write.   *)
Save_RB ==
    /\ pc = "loop"
    /\ copy = "reconstruct_book"
    /\ n_rows >= Len(events_pd)
    /\ IF snapshots = <<>>
       THEN /\ pc' = "raised"
            /\ error' = "ColumnNotFoundError"
            /\ UNCHANGED output
       ELSE /\ pc' = "done"
            /\ output' = [kind |-> "written", rows |-> FilterValid(snapshots)]
            /\ UNCHANGED error
    /\ UNCHANGED <<copy, has_order_id, book, snapshots, n_rows, last, wellformed, df, events_pd, run, first, batch, tools>>

----
(* 11_mass_production.py: reconstruct_lob                                  *)

(* Variant whose dicts and list are not created by the call. *)
Prepare_MP_KeepState(sorted) ==
    /\ pc = "load"
    /\ copy = "mass_production"
    /\ IF has_order_id
       THEN /\ pc' = "loop"
            /\ events_pd' = sorted
            /\ UNCHANGED output
       ELSE /\ pc' = "done"
            /\ output' = [kind |-> "None", rows |-> <<>>]
            /\ UNCHANGED events_pd
    /\ UNCHANGED <<copy, has_order_id, error, book, snapshots, n_rows, last, wellformed, df, run, first, batch, tools>>

(* mask + sort, order_id check (return None), empty state *)
Prepare_MP(sorted) ==
    /\ pc = "load"
    /\ copy = "mass_production"
    /\ IF has_order_id
       THEN /\ pc' = "loop"
            /\ events_pd' = sorted
            /\ SetBook(EmptyBook)
            /\ snapshots' = <<>>
            /\ UNCHANGED output
       ELSE /\ pc' = "done"
            /\ output' = [kind |-> "None", rows |-> <<>>]
            /\ UNCHANGED <<events_pd, book, snapshots>>
    /\ UNCHANGED <<copy, has_order_id, error, n_rows, last, wellformed, df, run, first, batch, tools>>

Submitted_MP(e) ==
    /\ IsSubmitted(e)
    /\ wellformed' = (wellformed /\ RespectsDataModel(e))
    /\ n_rows' = n_rows + 1
    /\ last' = e
    /\ IF SubmitOutcome(e) = "ok"
       THEN /\ SetBook(SubmitBook(Cur, e))
            /\ snapshots' = AppendIfValid(snapshots, Snapshot(SubmitBook(Cur, e), e.EventTime, TICKER))
       ELSE UNCHANGED <<book, snapshots>>
    /\ UNCHANGED <<pc, error>>

Removal_MP(e) ==
    /\ IsRemoval(e)
    /\ UNCHANGED wellformed
    /\ n_rows' = n_rows + 1
    /\ last' = e
    /\ IF e.order_id \in DOMAIN active_orders
       THEN IF RemovalRaises(e)
            THEN /\ pc' = "raised"
                 /\ error' = "TypeError"
                 /\ UNCHANGED <<book, snapshots>>
            ELSE /\ SetBook(RemoveBook(Cur, e))
                 /\ snapshots' = AppendIfValid(snapshots, Snapshot(RemoveBook(Cur, e), e.EventTime, TICKER))
                 /\ UNCHANGED <<pc, error>>
       ELSE /\ snapshots' = AppendIfValid(snapshots, Snapshot(Cur, e.EventTime, TICKER))
            /\ UNCHANGED <<book, pc, error>>

Step_MP(e) ==
    /\ pc = "loop"
    /\ copy = "mass_production"
    /\ \/ Submitted_MP(e)
       \/ Removal_MP(e)
    /\ UNCHANGED <<copy, has_order_id, output, df, events_pd, run, first, batch, tools>>

(* return pl.DataFrame(snapshots) *)
Return_MP ==
    /\ pc = "loop"
    /\ copy = "mass_production"
    /\ n_rows >= Len(events_pd)
    /\ pc' = "done"
    /\ output' = [kind |-> "returned", rows |-> snapshots]
    /\ UNCHANGED <<copy, has_order_id, error, book, snapshots, n_rows, last, wellformed, df, events_pd, run, first, batch, tools>>

----
(* 13_regime_factory.py: reconstruct_lob                                   *)

Prepare_RF(sorted) ==
    /\ pc = "load"
    /\ copy = "regime_factory"
    /\ IF has_order_id
       THEN /\ pc' = "loop"
            /\ events_pd' = sorted
            /\ SetBook(EmptyBook)
            /\ snapshots' = <<>>
            /\ UNCHANGED output
       ELSE /\ pc' = "done"
            /\ output' = [kind |-> "None", rows |-> <<>>]
            /\ UNCHANGED <<events_pd, book, snapshots>>
    /\ UNCHANGED <<copy, has_order_id, error, n_rows, last, wellformed, df, run, first, batch, tools>>

(* except (ValueError, AttributeError, KeyError): any other exception      *)
(* raised inside the try leaves reconstruct_lob.                           *)
Submitted_RF(e) ==
    /\ IsSubmitted(e)
    /\ wellformed' = (wellformed /\ RespectsDataModel(e))
    /\ n_rows' = n_rows + 1
    /\ last' = e
    /\ IF SubmitOutcome(e) = "ok"
       THEN /\ SetBook(SubmitBook(Cur, e))
            /\ snapshots' = AppendIfValid(snapshots, Snapshot(SubmitBook(Cur, e), e.EventTime, TICKER))
            /\ UNCHANGED <<pc, error>>
       ELSE IF SubmitOutcome(e) = "skip" \/ Caught("regime_factory", SubmitOutcome(e))
            THEN UNCHANGED <<book, snapshots, pc, error>>
            ELSE /\ pc' = "raised"
                 /\ error' = SubmitOutcome(e)
                 /\ UNCHANGED <<book, snapshots>>

Removal_RF(e) ==
    /\ IsRemoval(e)
    /\ UNCHANGED wellformed
    /\ n_rows' = n_rows + 1
    /\ last' = e
    /\ IF e.order_id \in DOMAIN active_orders
       THEN IF RemovalRaises(e)
            THEN /\ pc' = "raised"
                 /\ error' = "TypeError"
                 /\ UNCHANGED <<book, snapshots>>
            ELSE /\ SetBook(RemoveBook(Cur, e))
                 /\ snapshots' = AppendIfValid(snapshots, Snapshot(RemoveBook(Cur, e), e.EventTime, TICKER))
                 /\ UNCHANGED <<pc, error>>
       ELSE /\ snapshots' = AppendIfValid(snapshots, Snapshot(Cur, e.EventTime, TICKER))
            /\ UNCHANGED <<book, pc, error>>

Step_RF(e) ==
    /\ pc = "loop"
    /\ copy = "regime_factory"
    /\ \/ Submitted_RF(e)
       \/ Removal_RF(e)
    /\ UNCHANGED <<copy, has_order_id, output, df, events_pd, run, first, batch, tools>>

(* return pl.DataFrame(snapshots).filter(pl.col("mid_price") > 0) *)
Return_RF ==
    /\ pc = "loop"
    /\ copy = "regime_factory"
    /\ n_rows >= Len(events_pd)
    /\ IF snapshots = <<>>
       THEN /\ pc' = "raised"
            /\ error' = "ColumnNotFoundError"
            /\ UNCHANGED output
       ELSE /\ pc' = "done"
            /\ output' = [kind |-> "returned", rows |-> FilterValid(snapshots)]
            /\ UNCHANGED error
    /\ UNCHANGED <<copy, has_order_id, book, snapshots, n_rows, last, wellformed, df, events_pd, run, first, batch, tools>>

----
(* Spec: the loop is fed filtered rows in non-decreasing EventTime order.  *)

Sides == {"Side.BID", "Side.ASK"}

Row(t, ty, oid, side, price, qty) ==
    [EventTime |-> t, EventType |-> ty, order_id |-> oid, side |-> side,
     limit_price |-> price, quantity |-> qty]

NoRow == Row(0, "", 0, "", NaN, NaN)

(* Well-formed submissions. *)
GoodSubmitRows(t) ==
    {Row(t, "ORDER_SUBMITTED", o, s, Num(p), Num(q)) :
        o \in OrderIds, s \in Sides, p \in Prices, q \in Quantities}

(* Submissions of quantity zero: int() converts it like any other number. *)
ZeroSubmitRows(t) ==
    {Row(t, "ORDER_SUBMITTED", 1, s, Num(1), Num(0)) : s \in Sides}

(* Submissions with one field that is malformed, null, or out of range. *)
BadSubmitRows(t) ==
    {Row(t, "ORDER_SUBMITTED", 1, "Side.BID", c, Num(1)) : c \in {NaN, None, Str, Num(0)}}
    \cup
    {Row(t, "ORDER_SUBMITTED", 1, "Side.BID", Num(1), c) : c \in {NaN, None, Str}}

(* Removal rows carry no side and no price in the simulator's log. *)
RemovalRows(t) ==
    {Row(t, "ORDER_CANCELLED", o, "nan", NaN, c) :
        o \in OrderIds, c \in {NaN, Str, Num(0)} \cup {Num(q) : q \in Quantities}}
    \cup
    {Row(t, "ORDER_EXECUTED", o, "nan", NaN, c) :
        o \in OrderIds, c \in {NaN, None} \cup {Num(q) : q \in Quantities}}

(* The rows that can follow the rows iterated so far: EventTime increases. *)
StreamRows ==
    LET t == n_rows + 1
    IN  GoodSubmitRows(t) \cup ZeroSubmitRows(t) \cup BadSubmitRows(t) \cup RemovalRows(t)

Init ==
    /\ copy \in Copies
    /\ has_order_id \in BOOLEAN
    /\ pc = "load"
    /\ error = ""
    /\ active_orders = EmptyMap
    /\ bid_levels = EmptyMap
    /\ ask_levels = EmptyMap
    /\ snapshots = <<>>
    /\ n_rows = 0
    /\ last = NoRow
    /\ wellformed = TRUE
    /\ output = NoOutput
    /\ df = <<>>
    /\ events_pd = <<>>
    /\ run = 1
    /\ first = [snapshots |-> <<>>, output |-> NoOutput, pc |-> "load"]
    /\ batch = NoBatch
    /\ ToolsIdle

Feed_RB ==
    \E e \in StreamRows :
        /\ n_rows < MaxEvents
        /\ Step_RB(e)

Feed_MP ==
    \E e \in StreamRows :
        /\ n_rows < MaxEvents
        /\ Step_MP(e)

Feed_RF ==
    \E e \in StreamRows :
        /\ n_rows < MaxEvents
        /\ Step_RF(e)

Next ==
    \/ Prepare_RB(<<>>)
    \/ Prepare_MP(<<>>)
    \/ Prepare_RF(<<>>)
    \/ Feed_RB
    \/ Feed_MP
    \/ Feed_RF
    \/ Save_RB
    \/ Return_MP
    \/ Return_RF

Spec == Init /\ [][Next]_vars

----
(* Claims checked under Spec *)

OrdersAt(bidSide, p) ==
    {o \in DOMAIN active_orders :
        HasBID(active_orders[o].s) = bidSide /\ active_orders[o].p = p}

RECURSIVE SumQty(_)
SumQty(S) ==
    IF S = {} THEN 0
    ELSE LET o == CHOOSE x \in S : TRUE
         IN  active_orders[o].q + SumQty(S \ {o})

BookPrices ==
    DOMAIN bid_levels \cup DOMAIN ask_levels \cup {active_orders[o].p : o \in DOMAIN active_orders}

(* C1: on input that respects the event data model, after every processed *)
(* event, for each side and price, the remaining quantity summed over the  *)
(* active orders of that side and price equals the level of that price in  *)
(* that side's map, an absent level counting as 0.                         *)
C1_LevelSumInvariant ==
    wellformed =>
        \A p \in BookPrices :
            /\ SumQty(OrdersAt(TRUE, p)) = Get(bid_levels, p)
            /\ SumQty(OrdersAt(FALSE, p)) = Get(ask_levels, p)

(* C2: at every point of processing, neither price-level map holds an     *)
(* entry whose quantity is zero or negative.                               *)
C2_NoNonPositiveLevel ==
    /\ \A p \in DOMAIN bid_levels : bid_levels[p] > 0
    /\ \A p \in DOMAIN ask_levels : ask_levels[p] > 0

C8_EmptyInputCompletes ==
    (has_order_id /\ n_rows = 0 /\ pc \notin {"load", "loop"}) =>
        /\ pc = "done"
        /\ error = ""
        /\ output.kind \in {"written", "returned"}
        /\ output.rows = <<>>

(* A step that iterates over a SUBMITTED row whose price fails to parse,   *)
(* is NaN or <= 0, or whose quantity fails to parse.                       *)
DiscardStep ==
    /\ n_rows' = n_rows + 1
    /\ IsSubmitted(last')
    /\ SubmitOutcome(last') # "ok"

C10_SubmittedNeverHalts ==
    ~(pc = "raised" /\ error # "ColumnNotFoundError" /\ IsSubmitted(last))

(* A step that iterates over a CANCELLED / EXECUTED row whose order_id is   *)
(* not in active_orders: never submitted, or already fully removed.        *)
UntrackedRemovalStep ==
    /\ n_rows' = n_rows + 1
    /\ IsRemoval(last')
    /\ last'.order_id \notin DOMAIN active_orders

(* C11: a CANCELLED or EXECUTED row whose order_id is not tracked raises   *)
(* no error in any copy, whatever its quantity cell holds, and leaves the  *)
(* active orders and both level maps unchanged; reconstruct_book still     *)
(* appends a snapshot for it, the extraction of the unchanged book with    *)
(* the row's EventTime.                                                    *)
C11_UntrackedRemovalIsNoOp ==
    [][UntrackedRemovalStep =>
        /\ UNCHANGED <<pc, error, active_orders, bid_levels, ask_levels>>
        /\ (copy = "reconstruct_book" =>
                snapshots' = Append(snapshots,
                    [timestamp |-> last'.EventTime, symbol |-> SYMBOL_RB,
                     bid |-> TopLevels(SortedDesc(bid_levels)),
                     ask |-> TopLevels(SortedAsc(ask_levels)),
                     mid_price |-> MidPrice(TopLevels(SortedDesc(bid_levels))[1].px,
                                            TopLevels(SortedAsc(ask_levels))[1].px)]))]_vars

(* A removal row with a string quantity did not end the run, so its        *)
(* order_id was not tracked; an order is live and the row got a snapshot.  *)
C11_Witness ==
    /\ copy = "reconstruct_book"
    /\ pc = "loop"
    /\ IsRemoval(last)
    /\ last.quantity = Str
    /\ DOMAIN active_orders # {}
    /\ snapshots # <<>>
    /\ snapshots[Len(snapshots)].timestamp = last.EventTime
    /\ snapshots[Len(snapshots)].bid[1].px > 0

(* C14: in every snapshot appended, mid_price is (bid_px_1 + ask_px_1) / 2 *)
(* when bid_px_1 > 0 and ask_px_1 > 0 and 0.0 otherwise (twice mid_price   *)
(* is compared, in half ticks); mid_price > 0 exactly when both level maps *)
(* are non-empty after the event.                                          *)
C14_MidPriceOfBestPrices ==
    [][Len(snapshots') = Len(snapshots) + 1 =>
        LET s == snapshots'[Len(snapshots')]
        IN  /\ (s.bid[1].px > 0 /\ s.ask[1].px > 0) => s.mid_price = s.bid[1].px + s.ask[1].px
            /\ ~(s.bid[1].px > 0 /\ s.ask[1].px > 0) => s.mid_price = 0
            /\ (s.mid_price > 0) <=> (DOMAIN bid_levels' # {} /\ DOMAIN ask_levels' # {})]_vars

(* A one-sided snapshot of mid_price 0.0 followed by a two-sided one of    *)
(* mid_price 1.5 ticks.                                                    *)
C14_Witness ==
    /\ copy = "reconstruct_book"
    /\ Len(snapshots) = 2
    /\ snapshots[1].ask[1].px = 0
    /\ snapshots[1].bid[1].px = 1
    /\ snapshots[1].mid_price = 0
    /\ snapshots[2].bid[1].px = 1
    /\ snapshots[2].ask[1].px = 2
    /\ snapshots[2].mid_price = 3

(* C18: on input that respects the event data model, after every          *)
(* processed event every tracked order has a strictly positive remaining   *)
(* quantity and a strictly positive entry at its price in the level map of *)
(* its side, of at least its remaining quantity, and the other side's map  *)
(* holds nothing at that price unless an order of that side is there.      *)
C18_TrackedOrderHasLevel ==
    wellformed =>
        \A o \in DOMAIN active_orders :
            LET info == active_orders[o]
                own == IF HasBID(info.s) THEN bid_levels ELSE ask_levels
                other == IF HasBID(info.s) THEN ask_levels ELSE bid_levels
            IN  /\ info.q > 0
                /\ info.p \in DOMAIN own
                /\ own[info.p] >= info.q
                /\ (info.p \in DOMAIN other => OrdersAt(~HasBID(info.s), info.p) # {})

(* A step that iterates over a SUBMITTED row that is booked. *)
BookedStep ==
    /\ n_rows' = n_rows + 1
    /\ IsSubmitted(last')
    /\ SubmitOutcome(last') = "ok"

(* C20: a valid SUBMITTED row sets active_orders[order_id] to its price,   *)
(* quantity and side, overwriting an entry of that id, and adds its        *)
(* quantity to the level of its price on its side, creating the level if   *)
(* absent; no other order and no other level changes.                      *)
C20_SubmittedBooksOrder ==
    [][BookedStep =>
        LET e == last'
            price == e.limit_price.v
            qty == e.quantity.v
            own == IF HasBID(e.side) THEN bid_levels ELSE ask_levels
            own2 == IF HasBID(e.side) THEN bid_levels' ELSE ask_levels'
        IN  /\ DOMAIN active_orders' = DOMAIN active_orders \cup {e.order_id}
            /\ active_orders'[e.order_id] = [p |-> price, q |-> qty, s |-> e.side]
            /\ \A o \in DOMAIN active_orders \ {e.order_id} : active_orders'[o] = active_orders[o]
            /\ DOMAIN own2 = DOMAIN own \cup {price}
            /\ own2[price] = (IF price \in DOMAIN own THEN own[price] ELSE 0) + qty
            /\ \A p \in DOMAIN own \ {price} : own2[p] = own[p]
            /\ IF HasBID(e.side) THEN UNCHANGED ask_levels ELSE UNCHANGED bid_levels]_vars

(* The second submission of an id overwrote its entry and added to the     *)
(* level of the first.                                                     *)
C20_Witness ==
    /\ n_rows = 2
    /\ IsSubmitted(last)
    /\ SubmitOutcome(last) = "ok"
    /\ DOMAIN active_orders = {last.order_id}
    /\ active_orders[last.order_id] = [p |-> 1, q |-> 2, s |-> "Side.BID"]
    /\ bid_levels = (1 :> 3)
    /\ ask_levels = EmptyMap

----
(* SpecSort: a whole raw frame is filtered, sorted on EventTime and        *)
(* reconstructed.                                                          *)

RawRows ==
    UNION {{Row(t, "ORDER_SUBMITTED", 1, "Side.BID", Num(1), Num(2)),
            Row(t, "ORDER_SUBMITTED", 2, "Side.ASK", Num(2), Num(1)),
            Row(t, "ORDER_SUBMITTED", 1, "Side.BID", NaN, Num(1)),
            Row(t, "ORDER_CANCELLED", 1, "nan", NaN, Num(1)),
            Row(t, "ORDER_ACCEPTED", 1, "nan", NaN, NaN)} : t \in Times}

Frames(max) == UNION {[1..n -> RawRows] : n \in 0..max}

(* Variant without the mask on EventType. *)
FilterEvents_KeepAll(frame) == frame

(* raw_df[mask] / df.filter(mask) *)
FilterEvents(frame) == SelectSeq(frame, PassesFilter)

(* .sort("EventTime") in polars and .sort_values("EventTime") in pandas    *)
(* are called without maintain_order / kind="stable": rows come out in     *)
(* non-decreasing EventTime, rows of equal EventTime in any order.         *)
SortByEventTime(rows) ==
    {[i \in 1..Len(rows) |-> rows[f[i]]] : f \in
        {g \in Permutations(1..Len(rows)) :
            \A i, j \in 1..Len(rows) : i < j => rows[g[i]].EventTime <= rows[g[j]].EventTime}}

InitFrame(max) ==
    /\ copy \in Copies
    /\ has_order_id \in BOOLEAN
    /\ pc = "load"
    /\ error = ""
    /\ active_orders = EmptyMap
    /\ bid_levels = EmptyMap
    /\ ask_levels = EmptyMap
    /\ snapshots = <<>>
    /\ n_rows = 0
    /\ last = NoRow
    /\ wellformed = TRUE
    /\ output = NoOutput
    /\ df \in Frames(max)
    /\ events_pd = <<>>
    /\ run = 1
    /\ first = [snapshots |-> <<>>, output |-> NoOutput, pc |-> "load"]
    /\ batch = NoBatch
    /\ ToolsIdle

InitSort == InitFrame(MaxRows)

Load_RB == \E sorted \in SortByEventTime(FilterEvents(df)) : Prepare_RB(sorted)
Load_MP == \E sorted \in SortByEventTime(FilterEvents(df)) : Prepare_MP(sorted)
Load_RF == \E sorted \in SortByEventTime(FilterEvents(df)) : Prepare_RF(sorted)

Iterate_RB == n_rows < Len(events_pd) /\ Step_RB(events_pd[n_rows + 1])
Iterate_MP == n_rows < Len(events_pd) /\ Step_MP(events_pd[n_rows + 1])
Iterate_RF == n_rows < Len(events_pd) /\ Step_RF(events_pd[n_rows + 1])

Ended == pc \in {"done", "exit", "raised"}

(* The script is started again on the same input: all state is rebuilt.    *)
Rerun ==
    /\ Ended
    /\ run = 1
    /\ run' = 2
    /\ first' = [snapshots |-> snapshots, output |-> output, pc |-> pc]
    /\ pc' = "load"
    /\ error' = ""
    /\ active_orders' = EmptyMap
    /\ bid_levels' = EmptyMap
    /\ ask_levels' = EmptyMap
    /\ snapshots' = <<>>
    /\ n_rows' = 0
    /\ last' = NoRow
    /\ wellformed' = TRUE
    /\ output' = NoOutput
    /\ events_pd' = <<>>
    /\ UNCHANGED <<copy, has_order_id, df, batch, tools>>

NextSort ==
    \/ Load_RB
    \/ Load_MP
    \/ Load_RF
    \/ Iterate_RB
    \/ Iterate_MP
    \/ Iterate_RF
    \/ Save_RB
    \/ Return_MP
    \/ Return_RF

SpecSort == InitSort /\ [][NextSort]_vars

(* SpecTwice: the same frame is reconstructed twice. *)

InitTwice == InitFrame(MaxRowsTwice)

NextTwice ==
    \/ NextSort
    \/ Rerun

SpecTwice == InitTwice /\ [][NextTwice]_vars

----
(* SpecDeep: the loop is fed submissions at up to MaxDeepEvents different  *)
(* prices, so that a side can hold more than DEPTH levels.                 *)

DeepRows ==
    LET t == n_rows + 1
    IN  {Row(t, "ORDER_SUBMITTED", t, s, Num(p), Num(1)) :
            s \in Sides, p \in {t, MaxDeepEvents + 1 - t}}
        \cup {Row(t, "ORDER_CANCELLED", 1, "nan", NaN, NaN)}

FeedDeep_RB ==
    \E e \in DeepRows :
        /\ n_rows < MaxDeepEvents
        /\ Step_RB(e)

FeedDeep_MP ==
    \E e \in DeepRows :
        /\ n_rows < MaxDeepEvents
        /\ Step_MP(e)

FeedDeep_RF ==
    \E e \in DeepRows :
        /\ n_rows < MaxDeepEvents
        /\ Step_RF(e)

NextDeep ==
    \/ Prepare_RB(<<>>)
    \/ Prepare_MP(<<>>)
    \/ Prepare_RF(<<>>)
    \/ FeedDeep_RB
    \/ FeedDeep_MP
    \/ FeedDeep_RF
    \/ Save_RB
    \/ Return_MP
    \/ Return_RF

SpecDeep == Init /\ [][NextDeep]_vars

(* slots 1..k, k the smaller of DEPTH and the number of levels, hold the k *)
(* best entries of levels, best first: dir = 1 for the highest prices in   *)
(* descending order, dir = -1 for the lowest prices in ascending order.    *)
BestFirst(slots, levels, dir) ==
    LET n == Cardinality(DOMAIN levels)
        k == IF n < DEPTH THEN n ELSE DEPTH
    IN  /\ \A i \in 1..k :
               /\ slots[i].px \in DOMAIN levels
               /\ slots[i].qty = levels[slots[i].px]
        /\ \A i \in 1..(k - 1) : dir * slots[i].px > dir * slots[i + 1].px
        /\ \A p \in DOMAIN levels :
               \/ \E i \in 1..k : slots[i].px = p
               \/ \A i \in 1..k : dir * p < dir * slots[i].px

(* C12: in every snapshot appended, the filled bid slots are the DEPTH     *)
(* highest-priced entries of the bid map in strictly descending price      *)
(* order, the filled ask slots the DEPTH lowest-priced entries of the ask  *)
(* map in strictly ascending price order, each with the quantity the map   *)
(* holds at that price.                                                    *)
C12_BestLevelsFirst ==
    [][Len(snapshots') = Len(snapshots) + 1 =>
        /\ BestFirst(snapshots'[Len(snapshots')].bid, bid_levels', 1)
        /\ BestFirst(snapshots'[Len(snapshots')].ask, ask_levels', -1)]_vars

(* A snapshot of a bid side of more than DEPTH levels: the lowest level is *)
(* left out.                                                               *)
C12_Witness ==
    /\ copy = "regime_factory"
    /\ Cardinality(DOMAIN bid_levels) > DEPTH
    /\ IsSubmitted(last)
    /\ snapshots # <<>>
    /\ snapshots[Len(snapshots)].timestamp = last.EventTime
    /\ snapshots[Len(snapshots)].bid[DEPTH].px > SetMin(DOMAIN bid_levels)
    /\ snapshots[Len(snapshots)].ask[1].px > 0

(* slots k+1..DEPTH, k the number of levels, are exactly (0.0, 0), and     *)
(* slots 1..k hold non-zero prices.                                        *)
PaddedAfter(slots, levels) ==
    LET k == Cardinality(DOMAIN levels)
    IN  /\ \A i \in 1..DEPTH : i > k => slots[i] = [px |-> 0, qty |-> 0]
        /\ \A i \in 1..DEPTH : i <= k => slots[i].px # 0

(* C13: in every snapshot appended, on a side of k < DEPTH levels slots    *)
(* k+1..DEPTH are exactly price 0.0 and quantity 0 and slots 1..k hold     *)
(* non-zero prices; no zero-padded slot precedes a filled slot.            *)
C13_ZeroPaddingAfterLevels ==
    [][Len(snapshots') = Len(snapshots) + 1 =>
        /\ PaddedAfter(snapshots'[Len(snapshots')].bid, bid_levels')
        /\ PaddedAfter(snapshots'[Len(snapshots')].ask, ask_levels')
        /\ \A i, j \in 1..DEPTH :
               (i < j /\ snapshots'[Len(snapshots')].bid[i].px = 0) =>
                   snapshots'[Len(snapshots')].bid[j].px = 0
        /\ \A i, j \in 1..DEPTH :
               (i < j /\ snapshots'[Len(snapshots')].ask[i].px = 0) =>
                   snapshots'[Len(snapshots')].ask[j].px = 0]_vars

(* A snapshot of two bid levels and no ask level. *)
C13_Witness ==
    /\ copy = "reconstruct_book"
    /\ pc = "loop"
    /\ Cardinality(DOMAIN bid_levels) = 2
    /\ DOMAIN ask_levels = {}
    /\ IsSubmitted(last)
    /\ snapshots # <<>>
    /\ snapshots[Len(snapshots)].timestamp = last.EventTime
    /\ snapshots[Len(snapshots)].bid[2].px > 0
    /\ snapshots[Len(snapshots)].bid[3] = [px |-> 0, qty |-> 0]
    /\ snapshots[Len(snapshots)].ask[1] = [px |-> 0, qty |-> 0]

----
(* SpecBatch: the __main__ loops of 11_mass_production.py and              *)
(* 13_regime_factory.py simulate and reconstruct one day after another.    *)

DayRows(t) ==
    {Row(t, "ORDER_SUBMITTED", 1, "Side.BID", Num(1), Num(1)),
     Row(t, "ORDER_SUBMITTED", 2, "Side.ASK", Num(2), Num(1)),
     Row(t, "ORDER_SUBMITTED", 1, "Side.BID", Num(1), None),
     Row(t, "ORDER_CANCELLED", 1, "nan", NaN, NaN)}

(* parse_logs_df(end_state): the log of one day, EventTime increasing. *)
DayFrames ==
    UNION {{f \in [1..n -> UNION {DayRows(t) : t \in 1..n}] :
                \A i \in 1..n : f[i].EventTime = i} : n \in 0..MaxRowsDay}

InitBatch ==
    /\ copy \in {"mass_production", "regime_factory"}
    /\ has_order_id = TRUE
    /\ pc = "main"
    /\ error = ""
    /\ active_orders = EmptyMap
    /\ bid_levels = EmptyMap
    /\ ask_levels = EmptyMap
    /\ snapshots = <<>>
    /\ n_rows = 0
    /\ last = NoRow
    /\ wellformed = TRUE
    /\ output = NoOutput
    /\ df = <<>>
    /\ events_pd = <<>>
    /\ run = 1
    /\ first = [snapshots |-> <<>>, output |-> NoOutput, pc |-> "load"]
    /\ \E done \in SUBSET (1..NumDays) :
           /\ copy = "mass_production" => done = {}
           /\ batch = [NoBatch EXCEPT !.existed = done]
    /\ ToolsIdle

(* One iteration up to the call of reconstruct_lob: run_day simulates the  *)
(* day and parses its log, or raises.                                      *)
SimulateDay_MP ==
    /\ pc = "main"
    /\ copy = "mass_production"
    /\ batch.day < NumDays
    /\ batch' = [batch EXCEPT !.day = @ + 1, !.attempted = @ \cup {batch.day + 1}]
    /\ n_rows' = 0
    /\ last' = NoRow
    /\ wellformed' = TRUE
    /\ output' = NoOutput
    /\ events_pd' = <<>>
    /\ \/ /\ pc' = "load"
          /\ error' = ""
          /\ df' \in DayFrames
          /\ has_order_id' \in BOOLEAN
       \/ /\ pc' = "raised"
          /\ error' = "Exception"
          /\ UNCHANGED <<df, has_order_id>>
    /\ UNCHANGED <<copy, book, snapshots, run, first, tools>>

(* Variant of the except clause that leaves the loop. *)
Except_MP_Break ==
    /\ pc = "raised"
    /\ copy = "mass_production"
    /\ pc' = "main"
    /\ error' = ""
    /\ batch' = [batch EXCEPT !.failed = @ \cup {batch.day}, !.day = NumDays]
    /\ UNCHANGED <<copy, has_order_id, book, snapshots, n_rows, last, wellformed, output, df, events_pd, run, first, tools>>

(* except Exception: continue *)
Except_MP ==
    /\ pc = "raised"
    /\ copy = "mass_production"
    /\ pc' = "main"
    /\ error' = ""
    /\ batch' = [batch EXCEPT !.failed = @ \cup {batch.day}]
    /\ UNCHANGED <<copy, has_order_id, book, snapshots, n_rows, last, wellformed, output, df, events_pd, run, first, tools>>

(* if day_df is not None and day_df.height > 100: write_parquet; del day_df *)
WriteDay_MP ==
    /\ pc = "done"
    /\ copy = "mass_production"
    /\ pc' = "main"
    /\ output' = NoOutput
    /\ batch' = IF output.kind = "None"
                THEN [batch EXCEPT !.failed = @ \cup {batch.day}]
                ELSE IF Len(output.rows) > MinDayHeight
                     THEN [batch EXCEPT !.written = @ \cup {batch.day}]
                     ELSE batch
    /\ UNCHANGED <<copy, has_order_id, error, book, snapshots, n_rows, last, wellformed, df, events_pd, run, first, tools>>

(* if expected_file.exists(): continue *)
SkipDay_RF ==
    /\ pc = "main"
    /\ copy = "regime_factory"
    /\ batch.day < NumDays
    /\ batch.day + 1 \in batch.existed
    /\ batch' = [batch EXCEPT !.day = @ + 1]
    /\ UNCHANGED <<copy, has_order_id, pc, error, book, snapshots, n_rows, last, wellformed, output, df, events_pd, run, first, tools>>

SimulateDay_RF ==
    /\ pc = "main"
    /\ copy = "regime_factory"
    /\ batch.day < NumDays
    /\ batch.day + 1 \notin batch.existed
    /\ batch' = [batch EXCEPT !.day = @ + 1, !.attempted = @ \cup {batch.day + 1}]
    /\ n_rows' = 0
    /\ last' = NoRow
    /\ wellformed' = TRUE
    /\ output' = NoOutput
    /\ events_pd' = <<>>
    /\ \/ /\ pc' = "load"
          /\ error' = ""
          /\ df' \in DayFrames
          /\ has_order_id' \in BOOLEAN
       \/ /\ pc' = "raised"
          /\ error' = "Exception"
          /\ UNCHANGED <<df, has_order_id>>
    /\ UNCHANGED <<copy, book, snapshots, run, first, tools>>

(* except Exception as e: print; continue *)
Except_RF ==
    /\ pc = "raised"
    /\ copy = "regime_factory"
    /\ pc' = "main"
    /\ error' = ""
    /\ batch' = [batch EXCEPT !.failed = @ \cup {batch.day}]
    /\ UNCHANGED <<copy, has_order_id, book, snapshots, n_rows, last, wellformed, output, df, events_pd, run, first, tools>>

WriteDay_RF ==
    /\ pc = "done"
    /\ copy = "regime_factory"
    /\ pc' = "main"
    /\ output' = NoOutput
    /\ batch' = IF output.kind = "None"
                THEN [batch EXCEPT !.failed = @ \cup {batch.day}]
                ELSE IF Len(output.rows) > MinDayHeight
                     THEN [batch EXCEPT !.written = @ \cup {batch.day}]
                     ELSE batch
    /\ UNCHANGED <<copy, has_order_id, error, book, snapshots, n_rows, last, wellformed, df, events_pd, run, first, tools>>

NextBatch ==
    \/ SimulateDay_MP
    \/ SimulateDay_RF
    \/ SkipDay_RF
    \/ Load_MP
    \/ Load_RF
    \/ Iterate_MP
    \/ Iterate_RF
    \/ Return_MP
    \/ Return_RF
    \/ WriteDay_MP
    \/ WriteDay_RF
    \/ Except_MP
    \/ Except_RF

SpecBatch == InitBatch /\ [][NextBatch]_vars

----
(* SpecCopies: the same day log, EventTime increasing, is reconstructed by *)
(* reconstruct_book, then by reconstruct_lob of 11_mass_production.py,     *)
(* then by reconstruct_lob of 13_regime_factory.py.                        *)

InitCopies ==
    /\ copy = "reconstruct_book"
    /\ has_order_id \in BOOLEAN
    /\ pc = "load"
    /\ error = ""
    /\ active_orders = EmptyMap
    /\ bid_levels = EmptyMap
    /\ ask_levels = EmptyMap
    /\ snapshots = <<>>
    /\ n_rows = 0
    /\ last = NoRow
    /\ wellformed = TRUE
    /\ output = NoOutput
    /\ df \in DayFrames
    /\ events_pd = <<>>
    /\ run = 1
    /\ first = [snapshots |-> <<>>, output |-> NoOutput, pc |-> "load"]
    /\ batch = NoBatch
    /\ ToolsIdle

(* The next copy is started on the same input; the result of the copy that *)
(* ended is kept for comparison.                                           *)
NextCopy ==
    /\ Ended
    /\ run < 3
    /\ run' = run + 1
    /\ copy' = IF copy = "reconstruct_book" THEN "mass_production" ELSE "regime_factory"
    /\ first' = [snapshots |-> snapshots, output |-> output, pc |-> pc]
    /\ pc' = "load"
    /\ error' = ""
    /\ active_orders' = EmptyMap
    /\ bid_levels' = EmptyMap
    /\ ask_levels' = EmptyMap
    /\ snapshots' = <<>>
    /\ n_rows' = 0
    /\ last' = NoRow
    /\ wellformed' = TRUE
    /\ output' = NoOutput
    /\ events_pd' = <<>>
    /\ UNCHANGED <<has_order_id, df, batch, tools>>

NextCopies ==
    \/ NextSort
    \/ NextCopy

SpecCopies == InitCopies /\ [][NextCopies]_vars

----
(* SpecRound: frames of increasing EventTime in which a submission can be  *)
(* followed at once by the removal of the same order.                      *)

RoundRows(t) ==
    {Row(t, "ORDER_SUBMITTED", 1, "Side.BID", Num(1), Num(0)),
     Row(t, "ORDER_SUBMITTED", 1, "Side.BID", Num(1), Num(1)),
     Row(t, "ORDER_SUBMITTED", 2, "Side.BID", Num(1), Num(1)),
     Row(t, "ORDER_SUBMITTED", 2, "Side.ASK", Num(2), Num(2)),
     Row(t, "ORDER_CANCELLED", 1, "nan", NaN, NaN),
     Row(t, "ORDER_CANCELLED", 2, "nan", NaN, None),
     Row(t, "ORDER_CANCELLED", 2, "nan", NaN, Num(0)),
     Row(t, "ORDER_EXECUTED", 2, "nan", NaN, Num(1)),
     Row(t, "ORDER_EXECUTED", 2, "nan", NaN, Num(2))}

RoundFrames ==
    UNION {{f \in [1..n -> UNION {RoundRows(t) : t \in 1..n}] :
                \A i \in 1..n : f[i].EventTime = i} : n \in 0..MaxRoundRows}

InitRound ==
    /\ copy \in Copies
    /\ has_order_id \in BOOLEAN
    /\ pc = "load"
    /\ error = ""
    /\ active_orders = EmptyMap
    /\ bid_levels = EmptyMap
    /\ ask_levels = EmptyMap
    /\ snapshots = <<>>
    /\ n_rows = 0
    /\ last = NoRow
    /\ wellformed = TRUE
    /\ output = NoOutput
    /\ df \in RoundFrames
    /\ events_pd = <<>>
    /\ run = 1
    /\ first = [snapshots |-> <<>>, output |-> NoOutput, pc |-> "load"]
    /\ batch = NoBatch
    /\ ToolsIdle

SpecRound == InitRound /\ [][NextSort]_vars

----
(* Claims checked under SpecSort and SpecTwice *)

LoopRaised == pc = "raised" /\ error # "ColumnNotFoundError"

Discarded(e) == IsSubmitted(e) /\ SubmitOutcome(e) # "ok"

ApplyRow(b, e) ==
    IF IsSubmitted(e) /\ SubmitOutcome(e) = "ok" THEN SubmitBook(b, e)
    ELSE IF IsRemoval(e) /\ e.order_id \in DOMAIN b.ao /\ ~RemovalRaises(e) THEN RemoveBook(b, e)
    ELSE b

RECURSIVE Replay(_)
Replay(rows) ==
    IF rows = <<>> THEN EmptyBook
    ELSE ApplyRow(Replay(SubSeq(rows, 1, Len(rows) - 1)), rows[Len(rows)])

SymbolOf(c) == IF c = "reconstruct_book" THEN SYMBOL_RB ELSE TICKER

(* Top-DEPTH extraction of the book after rows 1..i, stamped with row i. *)
SnapshotAfter(i) ==
    Snapshot(Replay(SubSeq(events_pd, 1, i)), events_pd[i].EventTime, SymbolOf(copy))

Emits(i) ==
    /\ ~Discarded(events_pd[i])
    /\ (copy = "reconstruct_book" \/ SnapshotAfter(i).mid_price > 0)

StableSort(rows) ==
    LET g == CHOOSE f \in Permutations(1..Len(rows)) :
                 \A i, j \in 1..Len(rows) : i < j =>
                     \/ rows[f[i]].EventTime < rows[f[j]].EventTime
                     \/ rows[f[i]].EventTime = rows[f[j]].EventTime /\ f[i] < f[j]
    IN  [i \in 1..Len(rows) |-> rows[g[i]]]

(* C5: the loop iterates over the filtered rows in non-decreasing          *)
(* EventTime, rows of equal EventTime in their input order.                *)
C5_StableTimeOrder ==
    (has_order_id /\ pc # "load") =>
        /\ events_pd = StableSort(FilterEvents(df))
        /\ (n_rows > 0 => last = events_pd[n_rows])

----
(* Claims about the event-type filter, checked under SpecSort *)

RECURSIVE CountIn(_, _)
CountIn(rows, r) ==
    IF rows = <<>> THEN 0
    ELSE (IF rows[Len(rows)] = r THEN 1 ELSE 0) + CountIn(SubSeq(rows, 1, Len(rows) - 1), r)

(* C16: a record whose event type is none of ORDER_SUBMITTED,              *)
(* ORDER_CANCELLED, ORDER_EXECUTED is dropped before the loop: the frame   *)
(* the loop iterates over holds every other record of the input as often   *)
(* as the input does and no such record, so that no iteration, no change   *)
(* of the book and no snapshot belongs to one.                             *)
C16_OtherTypesDropped ==
    (has_order_id /\ pc # "load") =>
        /\ \A i \in 1..Len(events_pd) : PassesFilter(events_pd[i])
        /\ \A r \in RawRows :
               CountIn(events_pd, r) = IF PassesFilter(r) THEN CountIn(df, r) ELSE 0
        /\ n_rows <= Len(events_pd)
        /\ (n_rows > 0 => PassesFilter(last))
        /\ Len(snapshots) <= n_rows
        /\ \A i \in 1..Len(snapshots) :
               \E j \in 1..n_rows : snapshots[i].timestamp = events_pd[j].EventTime

(* A frame with an ORDER_ACCEPTED record between two booked submissions,   *)
(* reconstructed to the end.                                               *)
C16_Witness ==
    /\ copy = "reconstruct_book"
    /\ pc = "done"
    /\ Len(df) = 3
    /\ df[2].EventType = "ORDER_ACCEPTED"
    /\ df[2].EventTime = 1
    /\ n_rows = 2
    /\ Len(snapshots) = 2
    /\ snapshots[1].timestamp = 2
    /\ snapshots[2].timestamp = 2

----
(* Claims about the batch, checked under SpecBatch *)

(* C17: every call of reconstruct_lob starts with empty active orders,     *)
(* empty level maps and no snapshot, and on every day of the batch the     *)
(* book and the snapshots are those obtained from that day's events alone, *)
(* applied to an empty book, whatever days were reconstructed before.      *)
C17_FreshStatePerDay ==
    /\ (pc = "loop" /\ n_rows = 0) => (Cur = EmptyBook /\ snapshots = <<>>)
    /\ (pc \in {"loop", "done"} /\ has_order_id) =>
           LET idx == SelectSeq([i \in 1..n_rows |-> i], Emits)
           IN  /\ Cur = Replay(SubSeq(events_pd, 1, n_rows))
               /\ Len(snapshots) = Len(idx)
               /\ \A j \in 1..Len(idx) : snapshots[j] = SnapshotAfter(idx[j])

(* Day 1 left a two-sided book and a file; day 2 booked one bid and its    *)
(* frame has no row.                                                       *)
C17_Witness ==
    /\ copy = "mass_production"
    /\ batch.day = 2
    /\ 1 \in batch.written
    /\ pc = "done"
    /\ n_rows = 1
    /\ DOMAIN bid_levels # {}
    /\ DOMAIN ask_levels = {}
    /\ snapshots = <<>>
    /\ output = [kind |-> "returned", rows |-> <<>>]

----
(* Claims about the append, checked under Spec *)

(* A step of the loop body that reaches the end of the body: the row is    *)
(* not a discarded SUBMITTED and no exception ended the run.               *)
BodyCompletes ==
    /\ n_rows' = n_rows + 1
    /\ ~Discarded(last')
    /\ pc' = "loop"

----
(* Claims about removals, checked under Spec *)

(* A step that iterates over a CANCELLED / EXECUTED row of a tracked order *)
(* whose quantity cell is a number or null.                                *)
TrackedRemovalStep ==
    /\ n_rows' = n_rows + 1
    /\ IsRemoval(last')
    /\ last'.order_id \in DOMAIN active_orders
    /\ last'.quantity.k # "str"

(* The quantity the claim prescribes: the row's when it is a number > 0,   *)
(* the order's remaining quantity q when it is null, NaN or zero.          *)
LoggedOrFull(e, q) == IF e.quantity.k = "num" /\ e.quantity.v > 0 THEN e.quantity.v ELSE q

StoredSideIsBid(o) == HasBID(active_orders[o].s)

(* C21: on a removal of a tracked order the quantity removed, from the     *)
(* order and from its level, is the row's quantity when that is present,   *)
(* non-null and > 0, and the order's full remaining quantity when it is    *)
(* null, NaN or zero.                                                      *)
C21_RemoveQuantityRule ==
    [][TrackedRemovalStep =>
        LET o == last'.order_id
            info == active_orders[o]
            r == LoggedOrFull(last', info.q)
            own == IF StoredSideIsBid(o) THEN bid_levels ELSE ask_levels
            own2 == IF StoredSideIsBid(o) THEN bid_levels' ELSE ask_levels'
        IN  /\ pc' = "loop"
            /\ Get(own2, info.p) = Max(0, Get(own, info.p) - r)
            /\ IF r >= info.q
               THEN o \notin DOMAIN active_orders'
               ELSE active_orders'[o].q = info.q - r]_vars

(* An order of quantity 2 after a removal row of quantity 1. *)
C21_Witness ==
    /\ n_rows = 2
    /\ pc = "loop"
    /\ IsRemoval(last)
    /\ last.quantity = Num(1)
    /\ last.order_id \in DOMAIN active_orders
    /\ active_orders[last.order_id] = [p |-> 2, q |-> 1, s |-> "Side.ASK"]
    /\ ask_levels = (2 :> 1)

(* C22: a removal of a tracked order subtracts remove_qty from the level   *)
(* at the order's stored price on its stored side, floored at zero; a      *)
(* result of exactly zero deletes the price key; the other side's map and  *)
(* every other price key are unchanged.                                    *)
C22_LevelFlooredAndDeleted ==
    [][TrackedRemovalStep =>
        LET o == last'.order_id
            info == active_orders[o]
            r == LoggedOrFull(last', info.q)
            own == IF StoredSideIsBid(o) THEN bid_levels ELSE ask_levels
            own2 == IF StoredSideIsBid(o) THEN bid_levels' ELSE ask_levels'
        IN  /\ IF StoredSideIsBid(o) THEN UNCHANGED ask_levels ELSE UNCHANGED bid_levels
            /\ DOMAIN own2 \subseteq DOMAIN own
            /\ \A p \in DOMAIN own \ {info.p} : p \in DOMAIN own2 /\ own2[p] = own[p]
            /\ \A p \in DOMAIN own2 : own2[p] >= 0
            /\ info.p \in DOMAIN own =>
                   IF own[info.p] - r <= 0
                   THEN info.p \notin DOMAIN own2
                   ELSE info.p \in DOMAIN own2 /\ own2[info.p] = own[info.p] - r]_vars

(* A level of 1 after a removal row of quantity 2: floored, key deleted,   *)
(* the level at the other price kept.                                      *)
C22_Witness ==
    /\ copy = "reconstruct_book"
    /\ n_rows = 3
    /\ Len(snapshots) = 3
    /\ pc = "loop"
    /\ IsRemoval(last)
    /\ last.quantity = Num(2)
    /\ snapshots[2].bid[1] = [px |-> 2, qty |-> 1]
    /\ snapshots[2].bid[2] = [px |-> 1, qty |-> 1]
    /\ bid_levels = (1 :> 1)

(* C23: after a removal of a tracked order of remaining quantity q, the    *)
(* order is no longer tracked when remove_qty >= q, without an error also  *)
(* when remove_qty > q; when remove_qty < q it stays tracked with          *)
(* remaining quantity q - remove_qty and unchanged price and side; no      *)
(* other order changes.                                                    *)
C23_TrackerAfterRemoval ==
    [][TrackedRemovalStep =>
        LET o == last'.order_id
            info == active_orders[o]
            r == LoggedOrFull(last', info.q)
        IN  /\ pc' = "loop" /\ error' = ""
            /\ \A x \in DOMAIN active_orders \ {o} :
                   x \in DOMAIN active_orders' /\ active_orders'[x] = active_orders[x]
            /\ IF r >= info.q
               THEN DOMAIN active_orders' = DOMAIN active_orders \ {o}
               ELSE /\ DOMAIN active_orders' = DOMAIN active_orders
                    /\ active_orders'[o] = [p |-> info.p, q |-> info.q - r, s |-> info.s]]_vars

(* An ask of quantity 1 removed by a row of quantity 2, another order      *)
(* still tracked.                                                          *)
C23_Witness ==
    /\ copy = "reconstruct_book"
    /\ n_rows = 3
    /\ Len(snapshots) = 3
    /\ pc = "loop"
    /\ error = ""
    /\ IsRemoval(last)
    /\ last.quantity = Num(2)
    /\ snapshots[2].ask[1] = [px |-> 1, qty |-> 1]
    /\ ask_levels = EmptyMap
    /\ Cardinality(DOMAIN active_orders) = 1
    /\ last.order_id \notin DOMAIN active_orders

(* C24: every booked SUBMITTED row is booked on exactly one map, the bid   *)
(* map when its side tag contains BID and the ask map when its side is     *)
(* ASK, its tag is stored with the order, and a removal of a tracked order *)
(* leaves the map of the other side than the stored one unchanged.         *)
C24_SideTwoValued ==
    [][/\ BookedStep =>
            /\ active_orders'[last'.order_id].s = last'.side
            /\ last'.side \in {"Side.BID", "BID"} =>
                   /\ UNCHANGED ask_levels
                   /\ last'.limit_price.v \in DOMAIN bid_levels'
            /\ last'.side \in {"Side.ASK", "ASK"} =>
                   /\ UNCHANGED bid_levels
                   /\ last'.limit_price.v \in DOMAIN ask_levels'
            /\ (bid_levels' = bid_levels \/ ask_levels' = ask_levels)
       /\ TrackedRemovalStep =>
            IF active_orders[last'.order_id].s \in {"Side.BID", "BID"}
            THEN UNCHANGED ask_levels
            ELSE UNCHANGED bid_levels]_vars

(* A bid and an ask were booked, then the ask was removed from the ask map. *)
C24_Witness ==
    /\ copy = "reconstruct_book"
    /\ n_rows = 3
    /\ Len(snapshots) = 3
    /\ IsRemoval(last)
    /\ snapshots[2].bid[1].px = 1
    /\ snapshots[2].ask[1].px = 2
    /\ snapshots[3].bid[1] = snapshots[2].bid[1]
    /\ snapshots[3].ask[1].px = 0
    /\ DOMAIN active_orders # {}
    /\ \A o \in DOMAIN active_orders : active_orders[o].s = "Side.BID"

----
(* Claims about a submission and its removal, checked under SpecRound *)

(* C25: when the latest two rows are a valid SUBMITTED row of an order_id  *)
(* that was not tracked and a CANCELLED / EXECUTED row of that id whose    *)
(* quantity is null, zero or the submitted quantity, the active orders and *)
(* both level maps are exactly what they were before the submission.       *)
C25_SubmitThenRemoveRestores ==
    (pc \in {"loop", "done"} /\ n_rows >= 2 /\ n_rows <= Len(events_pd)) =>
        LET sub == events_pd[n_rows - 1]
            rem == events_pd[n_rows]
            before == Replay(SubSeq(events_pd, 1, n_rows - 2))
        IN  (/\ IsSubmitted(sub)
             /\ SubmitOutcome(sub) = "ok"
             /\ sub.quantity.v > 0
             /\ sub.order_id \notin DOMAIN before.ao
             /\ IsRemoval(rem)
             /\ rem.order_id = sub.order_id
             /\ rem.quantity \in {NaN, None, Num(0), sub.quantity})
            => Cur = before

----
(* Claims about the three copies, checked under SpecCopies *)

(* The run ended without a frame: an exception, sys.exit(1) or None. *)
RunFailed(p, out) == p \in {"raised", "exit"} \/ out.kind = "None"

(* The rows of a frame without their symbol. *)
WithoutSymbol(rows) ==
    [i \in 1..Len(rows) |->
        [timestamp |-> rows[i].timestamp, bid |-> rows[i].bid, ask |-> rows[i].ask,
         mid_price |-> rows[i].mid_price]]

(* C26: on the same input every copy ends like the copy run before it:     *)
(* both fail, or both produce the same valid snapshots, symbol aside.      *)
C26_CopiesAgree ==
    (run >= 2 /\ Ended) =>
        /\ RunFailed(pc, output) = RunFailed(first.pc, first.output)
        /\ ~RunFailed(pc, output) =>
               WithoutSymbol(output.rows) = WithoutSymbol(first.output.rows)

----
(* 14_launch_parallel.py: launch_workers                                   *)

MaxTotalDays == 6
MaxCores == 4
StartSeeds == {1, 8}

(* The variables of the reconstruction, left as they are before any run. *)
CoreIdle ==
    /\ copy = "regime_factory"
    /\ has_order_id = TRUE
    /\ pc = "load"
    /\ error = ""
    /\ active_orders = EmptyMap
    /\ bid_levels = EmptyMap
    /\ ask_levels = EmptyMap
    /\ snapshots = <<>>
    /\ n_rows = 0
    /\ last = NoRow
    /\ wellformed = TRUE
    /\ output = NoOutput
    /\ df = <<>>
    /\ events_pd = <<>>
    /\ run = 1
    /\ first = [snapshots |-> <<>>, output |-> NoOutput, pc |-> "load"]
    /\ batch = NoBatch

Min(a, b) == IF a <= b THEN a ELSE b

(* Variant that rounds the chunk down. *)
ChunkSize_Floor(total_days, cores) == total_days \div cores

(* chunk_size = math.ceil(total_days / cores), for cores >= 1 *)
ChunkSize(total_days, cores) == (total_days + cores - 1) \div cores

(* launch_workers is called: chunk_size is computed and procs is empty. *)
Call_Launch(days, seed, cores) ==
    [total_days |-> days, start_seed |-> seed, cores |-> cores,
     chunk_size |-> ChunkSize(days, cores), i |-> 0, procs |-> <<>>, pc |-> "loop"]

(* The process Popen starts: 13_regime_factory.py --days worker_days       *)
(* --start-seed worker_seed, about to enter its day loop at i = start_seed. *)
Popen(worker_seed, worker_days) ==
    [worker_seed |-> worker_seed, worker_days |-> worker_days,
     i |-> worker_seed, pc |-> "loop", regime_check |-> "", regime |-> ""]

(* One iteration of for i in range(cores) that launches a worker. *)
Launch ==
    /\ launcher.pc = "loop"
    /\ launcher.i < launcher.cores
    /\ LET worker_seed == launcher.start_seed + (launcher.i * launcher.chunk_size)
           remaining == launcher.total_days - (launcher.i * launcher.chunk_size)
           worker_days == Min(launcher.chunk_size, remaining)
       IN  /\ remaining > 0
           /\ launcher' = [launcher EXCEPT !.procs = Append(@, Popen(worker_seed, worker_days)),
                                           !.i = @ + 1]
    /\ UNCHANGED <<vars_core, factory, harvester, splitter>>

(* The iteration that finds remaining <= 0 and breaks. *)
Break_Launch ==
    /\ launcher.pc = "loop"
    /\ launcher.i < launcher.cores
    /\ launcher.total_days - (launcher.i * launcher.chunk_size) <= 0
    /\ launcher' = [launcher EXCEPT !.pc = "monitor"]
    /\ UNCHANGED <<vars_core, factory, harvester, splitter>>

(* range(cores) is exhausted. *)
AllLaunched ==
    /\ launcher.pc = "loop"
    /\ launcher.i = launcher.cores
    /\ launcher' = [launcher EXCEPT !.pc = "monitor"]
    /\ UNCHANGED <<vars_core, factory, harvester, splitter>>

InitLaunch ==
    /\ CoreIdle
    /\ \E days \in 1..MaxTotalDays, seed \in StartSeeds, cores \in 1..MaxCores :
           launcher = Call_Launch(days, seed, cores)
    /\ factory = NoFactory
    /\ harvester = NoHarvest
    /\ splitter = NoSplit

NextLaunch ==
    \/ Launch
    \/ Break_Launch
    \/ AllLaunched

SpecLaunch == InitLaunch /\ [][NextLaunch]_vars

----
(* Claims about the launcher, checked under SpecLaunch *)

(* The seeds worker p simulates: [worker_seed, worker_seed + worker_days) *)
SeedRange(p) == p.worker_seed .. (p.worker_seed + p.worker_days - 1)

(* C27: once every worker is launched, the workers' seed ranges are each   *)
(* non-empty, pairwise disjoint, and their union is exactly                *)
(* [start_seed, start_seed + total_days).                                  *)
C27_LaunchPartitions ==
    launcher.pc = "monitor" =>
        LET procs == launcher.procs
        IN  /\ \A k \in 1..Len(procs) : procs[k].worker_days >= 1
            /\ \A j, k \in 1..Len(procs) :
                   j # k => SeedRange(procs[j]) \cap SeedRange(procs[k]) = {}
            /\ UNION {SeedRange(procs[k]) : k \in 1..Len(procs)}
                   = launcher.start_seed .. (launcher.start_seed + launcher.total_days - 1)

(* The loop broke early: fewer workers than cores, and a shorter last one. *)
C27_Witness ==
    /\ launcher.pc = "monitor"
    /\ launcher.i < launcher.cores
    /\ Len(launcher.procs) >= 3
    /\ launcher.procs[Len(launcher.procs)].worker_days < launcher.chunk_size

----
(* 13_regime_factory.py: the day loop of __main__, run by the workers that  *)
(* launch_workers started                                                   *)

MaxFactoryDays == 3
MaxFactoryCores == 2

Regimes == {"STANDARD", "VOLATILE", "MOMENTUM"}

(* rng.random() of default_rng(seed), in hundredths: the draw is a function *)
(* of the seed alone, fixed for the whole batch. 59, 60 and 80 sit on both  *)
(* sides of the two thresholds.                                             *)
DiceValues == {59, 60, 80}

(* The base regime get_regime_params selects from the draw. *)
RegimeOfDice(dice) ==
    IF dice < 60 THEN "STANDARD"
    ELSE IF dice < 80 THEN "VOLATILE"
    ELSE "MOMENTUM"

(* The regime get_regime_params(seed) returns. *)
get_regime_params(seed) == RegimeOfDice(factory.dice[seed])

(* sim_day_{i}_{regime}.parquet in DATA_DIR *)
SimDayFile(i, regime) == [seed |-> i, regime |-> regime]

(* Variant of the skip check that ignores --regime. *)
RegimeCheck_NoOverride(i) == get_regime_params(i)

(* regime_check of the skip check: the seed's regime, or args.regime when   *)
(* that is a non-empty string.                                              *)
RegimeCheck(i) == IF factory.regime # "" THEN factory.regime ELSE get_regime_params(i)

(* The regime run_day returns: the seed's regime, or regime_override when   *)
(* that is a non-empty string.                                              *)
RunDayRegime(seed) == IF factory.regime # "" THEN factory.regime ELSE get_regime_params(seed)

(* What run_day and the test on day_df can come to. *)
RunDayOutcomes == {"raised", "None", "short", "frame"}

SetProc(k, p) == launcher' = [launcher EXCEPT !.procs[k] = p]

(* The worker's loop moves to the next seed. regime_check and regime are   *)
(* assigned again before they are read, so they are cleared here.          *)
NextDay(p) == [p EXCEPT !.pc = "loop", !.i = @ + 1, !.regime_check = "", !.regime = ""]

(* Worker k begins an iteration: it computes expected_file and either      *)
(* continues, because the file exists, or goes on to run_day.              *)
CheckDay(k) ==
    LET p == launcher.procs[k]
        regime_check == RegimeCheck(p.i)
    IN  /\ p.pc = "loop"
        /\ p.i < p.worker_seed + p.worker_days
        /\ IF SimDayFile(p.i, regime_check) \in factory.disk
           THEN SetProc(k, NextDay(p))
           ELSE SetProc(k, [p EXCEPT !.pc = "run_day", !.regime_check = regime_check])
        /\ UNCHANGED <<vars_core, factory, harvester, splitter>>

(* Worker k runs run_day(seed=i, regime_override=args.regime): it raises,   *)
(* or returns no frame or a frame of at most 100 rows, and the loop goes   *)
(* on; or it returns a frame that will be written.                         *)
RunDay(k) ==
    LET p == launcher.procs[k]
    IN  /\ p.pc = "run_day"
        /\ \E outcome \in RunDayOutcomes :
               IF outcome = "frame"
               THEN SetProc(k, [p EXCEPT !.pc = "write", !.regime = RunDayRegime(p.i)])
               ELSE SetProc(k, NextDay(p))
        /\ UNCHANGED <<vars_core, factory, harvester, splitter>>

(* Worker k writes sim_day_{i}_{regime}.parquet and goes on. *)
WriteDay(k) ==
    LET p == launcher.procs[k]
    IN  /\ p.pc = "write"
        /\ factory' = [factory EXCEPT !.disk = @ \cup {SimDayFile(p.i, p.regime)}]
        /\ SetProc(k, NextDay(p))
        /\ UNCHANGED <<vars_core, harvester, splitter>>

(* The batch: for each seed DATA_DIR holds no file, or the file an earlier  *)
(* run wrote without --regime, or the one it wrote with --regime VOLATILE; *)
(* --regime is absent or VOLATILE; and the launcher is called.             *)
InitFactory ==
    /\ CoreIdle
    /\ \E days \in 1..MaxFactoryDays, cores \in 1..MaxFactoryCores :
           /\ launcher = Call_Launch(days, 1, cores)
           /\ \E dice \in [1..days -> DiceValues],
                 old \in [1..days -> {"none", "own", "forced"}],
                 regime \in {"", "VOLATILE"} :
                  factory = [disk |-> {SimDayFile(s, IF old[s] = "own" THEN RegimeOfDice(dice[s]) ELSE "VOLATILE") :
                                           s \in {t \in 1..days : old[t] # "none"}},
                             regime |-> regime, dice |-> dice]
    /\ harvester = NoHarvest
    /\ splitter = NoSplit

NextFactory ==
    \/ Launch
    \/ Break_Launch
    \/ AllLaunched
    \/ \E k \in 1..Len(launcher.procs) : CheckDay(k)
    \/ \E k \in 1..Len(launcher.procs) : RunDay(k)
    \/ \E k \in 1..Len(launcher.procs) : WriteDay(k)

SpecFactory == InitFactory /\ [][NextFactory]_vars

----
(* Claims about the parallel batch, checked under SpecFactory *)

(* C28: whenever a worker is in run_day for a seed, the file that run      *)
(* would write is not in DATA_DIR; whenever a worker writes, the file has  *)
(* the name its skip check looked for and is not in DATA_DIR yet. So a     *)
(* seed whose file exists is not simulated again and no file is written    *)
(* over, whatever the interleaving of the workers.                         *)
C28_IdempotentBatch ==
    \A k \in 1..Len(launcher.procs) :
        LET p == launcher.procs[k]
        IN  /\ p.pc = "run_day" => SimDayFile(p.i, RunDayRegime(p.i)) \notin factory.disk
            /\ p.pc = "write" =>
                   /\ p.regime = p.regime_check
                   /\ SimDayFile(p.i, p.regime) \notin factory.disk

(* Two workers at once, one about to write under a --regime that differs   *)
(* from its seed's own regime, the other in run_day, and a day skipped     *)
(* because its file was there.                                             *)
C28_Witness ==
    /\ Len(launcher.procs) = 2
    /\ factory.regime # ""
    /\ launcher.procs[1].pc = "write"
    /\ launcher.procs[1].i = 2
    /\ get_regime_params(2) # factory.regime
    /\ SimDayFile(1, factory.regime) \in factory.disk
    /\ launcher.procs[2].pc = "run_day"

----
(* smart_harvester.py: wait_for_market_open and the collection loop of main *)

MARKET_OPEN_HOUR == 9
MARKET_OPEN_MINUTE == 15
MARKET_CLOSE_HOUR == 15
MARKET_CLOSE_MINUTE == 30

(* An IST time of day in seconds since midnight, and its hour and minute *)
(* as datetime gives them.                                               *)
TimeOfDay(h, m, s) == (h * 3600) + (m * 60) + s
Hour(t) == t \div 3600
Minute(t) == (t \div 60) % 60

(* now.replace(hour=..., minute=..., second=0, microsecond=0) *)
market_open == TimeOfDay(MARKET_OPEN_HOUR, MARKET_OPEN_MINUTE, 0)
market_close == TimeOfDay(MARKET_CLOSE_HOUR, MARKET_CLOSE_MINUTE, 0)

(* The instants at which the clock is read. *)
ClockTicks ==
    {TimeOfDay(9, 0, 0), TimeOfDay(9, 15, 0), TimeOfDay(12, 0, 0),
     TimeOfDay(15, 29, 58), TimeOfDay(15, 30, 0), TimeOfDay(15, 30, 3),
     TimeOfDay(15, 45, 0), TimeOfDay(16, 0, 0), TimeOfDay(16, 15, 0),
     TimeOfDay(16, 30, 0), TimeOfDay(17, 5, 0)}

(* Variant that compares the whole time of day with the close. *)
StopCondition_TimeOfDay(now) == now >= market_close

(* STOP CONDITION: now.hour >= MARKET_CLOSE_HOUR and now.minute >= MARKET_CLOSE_MINUTE *)
StopCondition(now) == Hour(now) >= MARKET_CLOSE_HOUR /\ Minute(now) >= MARKET_CLOSE_MINUTE

(* wait_for_market_open: returns False after the close, sleeps until the  *)
(* open before it, and returns at once in between.                        *)
WaitForMarketOpen ==
    /\ harvester.pc = "wait_for_market_open"
    /\ LET now == harvester.clock
       IN  IF now > market_close
           THEN harvester' = [harvester EXCEPT !.now = now, !.pc = "exit"]
           ELSE IF now < market_open
           THEN harvester' = [harvester EXCEPT !.now = now, !.clock = market_open, !.pc = "loop"]
           ELSE harvester' = [harvester EXCEPT !.now = now, !.pc = "loop"]
    /\ UNCHANGED <<vars_core, launcher, factory, splitter>>

(* The top of while True: the clock is read and the loop breaks on the    *)
(* stop condition.                                                        *)
LoopTop ==
    /\ harvester.pc = "loop"
    /\ LET now == harvester.clock
       IN  harvester' = [harvester EXCEPT !.now = now,
                             !.pc = IF StopCondition(now) THEN "stopped" ELSE "fetch"]
    /\ UNCHANGED <<vars_core, launcher, factory, splitter>>

(* The fetch cycle: the rows fetched carry now as their timestamp and are *)
(* appended to the day's file unless there is none; then sleep(5). The    *)
(* five depth() calls and the sleep take at least 5 seconds and the code  *)
(* puts no upper limit on them.                                           *)
FetchCycle ==
    /\ harvester.pc = "fetch"
    /\ \E data_batch \in BOOLEAN, t \in ClockTicks :
           /\ t >= harvester.clock + 5
           /\ harvester' = [harvester EXCEPT
                                !.saved = IF data_batch THEN @ \cup {harvester.now} ELSE @,
                                !.clock = t, !.pc = "loop"]
    /\ UNCHANGED <<vars_core, launcher, factory, splitter>>

(* main has loaded the token and built the client, at some time of day. *)
InitHarvest ==
    /\ CoreIdle
    /\ launcher = NoLaunch
    /\ factory = NoFactory
    /\ \E t \in ClockTicks : harvester = [NoHarvest EXCEPT !.clock = t, !.pc = "wait_for_market_open"]
    /\ splitter = NoSplit

NextHarvest ==
    \/ WaitForMarketOpen
    \/ LoopTop
    \/ FetchCycle

SpecHarvest == InitHarvest /\ [][NextHarvest]_vars

----
(* Claims about the harvester, checked under SpecHarvest *)

(* C29: an iteration whose now is at or after the market close does not   *)
(* reach the fetch cycle, and no saved row has a timestamp at or after    *)
(* the close.                                                             *)
C29_StopsAtClose ==
    /\ harvester.pc = "fetch" => harvester.now < market_close
    /\ \A t \in harvester.saved : t < market_close

(* Within the hour of the close the loop does stop: an iteration that     *)
(* starts between 15:30 and 15:59 breaks.                                 *)
StopsInClosingHour ==
    (harvester.pc = "fetch" /\ Hour(harvester.now) = MARKET_CLOSE_HOUR) =>
        harvester.now < market_close

----
(* data_collection/processing/split_and_merge.py: split_and_merge          *)

MaxStandard == 90
MaxOther == 2
MaxPermuted == 3

(* A double r just below the fraction p/q: r = p/q - (d/q) * 2^-52.        *)
(* The double 0.70 is 7/10 - (2/10) * 2^-52, and the double sum            *)
(* 0.70 + 0.15 is 17/20 - (2/20) * 2^-52.                                  *)
TRAIN_RATIO == [p |-> 7, q |-> 10, d |-> 2]
TRAIN_PLUS_VAL_RATIO == [p |-> 17, q |-> 20, d |-> 2]

(* The largest power of two u, starting from u, with u < k: the doubles     *)
(* just below k are u * 2^-52 apart.                                       *)
RECURSIVE Pow2Below(_, _)
Pow2Below(u, k) == IF 2 * u < k THEN Pow2Below(2 * u, k) ELSE u

(* int(n * r) in double arithmetic. The exact product is n*p/q less        *)
(* (n*d/q) * 2^-52. When n*p/q is not whole its fraction is at least 1/q   *)
(* and the truncation is not affected. When n*p/q is a whole number k the  *)
(* product rounds to k (ties go to k, whose mantissa is even) unless the   *)
(* deficit exceeds half the spacing below k: then it rounds below k and    *)
(* int() gives k - 1.                                                      *)
IntOfProduct(n, r) ==
    LET k == (n * r.p) \div r.q
    IN  IF n > 0 /\ (n * r.p) % r.q = 0 /\ 2 * ((n * r.d) \div r.q) > Pow2Below(1, k)
        THEN k - 1
        ELSE k

(* basename.replace(".parquet", "").split("_") of sim_day_ID_REGIME.parquet *)
(* and of the old sim_day_ID.parquet                                        *)
BatchFile(id, regime) == <<"sim", "day", ToString(id), regime>>
LegacyFile(id) == <<"sim", "day", ToString(id)>>

(* regime = parts[3] if len(parts) >= 4 else "LEGACY" *)
RegimeOfFile(parts) == IF Len(parts) >= 4 THEN parts[4] ELSE "LEGACY"

(* regime_files after the grouping loop: each file under its regime, in the *)
(* order of files.                                                          *)
GroupByRegime(files) ==
    [r \in {RegimeOfFile(files[k]) : k \in 1..Len(files)} |->
        SelectSeq(files, LAMBDA f : RegimeOfFile(f) = r)]

Reverse(s) == [k \in 1..Len(s) |-> s[Len(s) + 1 - k]]
Rotate(s) == [k \in 1..Len(s) |-> s[(k % Len(s)) + 1]]

(* The outcomes of random.shuffle: every permutation of a short list, and   *)
(* for a longer one the list itself, its reverse and its rotation.         *)
Shuffles(s) ==
    IF Len(s) <= MaxPermuted
    THEN {[k \in 1..Len(s) |-> s[f[k]]] :
              f \in {g \in [1..Len(s) -> 1..Len(s)] : \A a, b \in 1..Len(s) : g[a] = g[b] => a = b}}
    ELSE {s, Reverse(s), Rotate(s)}

SeqSet(s) == {s[k] : k \in 1..Len(s)}

(* Steps 1 to 3: the files are found and grouped by regime; with no file   *)
(* the function returns.                                                   *)
GroupFiles ==
    /\ splitter.pc = "start"
    /\ IF Len(splitter.files) = 0
       THEN splitter' = [splitter EXCEPT !.pc = "returned"]
       ELSE splitter' = [splitter EXCEPT !.regime_files = GroupByRegime(splitter.files),
                                         !.total_files = Len(splitter.files),
                                         !.pc = "split"]
    /\ UNCHANGED <<vars_core, launcher, factory, harvester>>

(* One iteration of the loop of step 4, for a regime not yet split. *)
SplitRegime ==
    /\ splitter.pc = "split"
    /\ \E regime \in DOMAIN splitter.regime_files \ DOMAIN splitter.regime_train :
       \E shuffled \in Shuffles(splitter.regime_files[regime]) :
           LET n == Len(shuffled)
               train_end == IntOfProduct(n, TRAIN_RATIO)
               val_end == IntOfProduct(n, TRAIN_PLUS_VAL_RATIO)
               regime_train == SubSeq(shuffled, 1, train_end)
               regime_val == SubSeq(shuffled, train_end + 1, val_end)
               regime_test == SubSeq(shuffled, val_end + 1, n)
           IN  splitter' = [splitter EXCEPT
                               !.train_files = @ \o regime_train,
                               !.val_files = @ \o regime_val,
                               !.test_files = @ \o regime_test,
                               !.regime_train = [r \in DOMAIN @ \cup {regime} |->
                                                     IF r = regime THEN regime_train ELSE @[r]]]
    /\ UNCHANGED <<vars_core, launcher, factory, harvester>>

(* Step 5: the four assertions. *)
ValidateSplits ==
    /\ splitter.pc = "split"
    /\ DOMAIN splitter.regime_train = DOMAIN splitter.regime_files
    /\ LET train == splitter.train_files
           val == splitter.val_files
           test == splitter.test_files
       IN  splitter' = [splitter EXCEPT !.pc =
               IF /\ Len(train) + Len(val) + Len(test) = splitter.total_files
                  /\ SeqSet(train) \cap SeqSet(val) = {}
                  /\ SeqSet(train) \cap SeqSet(test) = {}
                  /\ SeqSet(val) \cap SeqSet(test) = {}
               THEN "validated"
               ELSE "AssertionError"]
    /\ UNCHANGED <<vars_core, launcher, factory, harvester>>

(* DATA_DIR holds some STANDARD days, some VOLATILE days and some files of  *)
(* the old naming.                                                         *)
InitSplit ==
    /\ CoreIdle
    /\ launcher = NoLaunch
    /\ factory = NoFactory
    /\ harvester = NoHarvest
    /\ \E n \in 0..MaxStandard, v \in 0..MaxOther, m \in 0..MaxOther :
           splitter = [NoSplit EXCEPT
                          !.files = [k \in 1..n |-> BatchFile(k, "STANDARD")]
                                        \o [k \in 1..v |-> BatchFile(n + k, "VOLATILE")]
                                        \o [k \in 1..m |-> LegacyFile(n + v + k)],
                          !.pc = "start"]

NextSplit ==
    \/ GroupFiles
    \/ SplitRegime
    \/ ValidateSplits

SpecSplit == InitSplit /\ [][NextSplit]_vars

----
(* Claims about the split, checked under SpecSplit *)

(* The assertions of step 5 pass, and the three lists are pairwise         *)
(* disjoint and hold every input file exactly once.                        *)
SplitsPartitionFiles ==
    splitter.pc \in {"validated", "AssertionError"} =>
        LET all == splitter.train_files \o splitter.val_files \o splitter.test_files
        IN  /\ splitter.pc = "validated"
            /\ Len(all) = Len(splitter.files)
            /\ SeqSet(all) = SeqSet(splitter.files)
            /\ Cardinality(SeqSet(all)) = Len(all)

(* C30: the assertions pass, the train, validation and test lists are      *)
(* pairwise disjoint and hold every input file exactly once, and in each   *)
(* regime group of n files the train list gets floor(0.70 n) files.        *)
C30_SplitAssertionsAndRatio ==
    /\ SplitsPartitionFiles
    /\ \A r \in DOMAIN splitter.regime_train :
           Len(splitter.regime_train[r]) = (70 * Len(splitter.regime_files[r])) \div 100

====
